---- MODULE Spec2Model ----
(***************************************************************************)
(* The proxy-bidding auction of auction.go: Bidder records, the Auction    *)
(* that owns a list of them, PlaceBid (validation, the triggering bid, the *)
(* auto-increment sweep) and DetermineWinner (the scan with isWinner).     *)
(*                                                                         *)
(* Money (float64 in the source) is modelled by integers: a unit is the    *)
(* smallest amount the callers use, and comparison and addition are exact. *)
(* time.Time is modelled by an integer instant; time.Now() reads a clock   *)
(* that never runs backwards and may or may not have advanced since the    *)
(* previous read.                                                          *)
(***************************************************************************)
EXTENDS Integers, Sequences, FiniteSets, TLC

VARIABLES
    bidders,    \* Auction.Bidders: the list of Bidder records (held by reference)
    clock,      \* the last instant time.Now() returned
    err,        \* what the last PlaceBid call returned ("none" before any call)
    winner,     \* what the last DetermineWinner call returned, NoBidder once a
                \* later PlaceBid has been accepted (the result is then stale)
    mutex,      \* Auction.RWMutex: the goroutine holding the write lock, or NoOne
    pc,         \* where each goroutine is in its call
    frame,      \* each goroutine's arguments, locals and return value
    start,      \* history: the bidder list before the calls began
    committed,  \* history: the bidder list as the last whole PlaceBid left it
    settled,    \* history: the winners of the states between whole PlaceBid
                \* calls that the DetermineWinner call has overlapped
    pending     \* history: the callers whose PlaceBid call had begun and not
                \* yet returned when the DetermineWinner call returned

seqVars == <<bidders, clock, err, winner>>

histVars == <<start, committed, settled, pending>>

conVars == <<mutex, pc, frame, histVars>>

vars == <<bidders, clock, err, winner, mutex, pc, frame, start, committed, settled, pending>>

\* ------------------------------------------------------------------ bounds

\* The longest bidder list an auction is built from.
MaxBidders == 2

\* The amounts of money the callers put in a bidder record's StartingBid,
\* MaxBid and CurrentBid (zero is the value of a field never set).
Money == 0..2

\* The auto-increments the callers put in a bidder record.
Increments == -1..2

\* The amounts the callers bid: each is below the floor of some bidders,
\* within the range of some, and above the ceiling or not above the current
\* bid of others.
Amounts == 1..2

\* ------------------------------------------------------------- data model

\* The nil *Bidder.
NoBidder == 0

\* No goroutine: the zero value of the mutex.
NoOne == 0

\* The fewest bidders NewAuction accepts.
MinBidders == 2

\* The nil error.
NoError == "nil"

\* No uuid: what an error that names no bidder carries.
NoID == 0

\* Bidder, without the display name. ID is the bidder's uuid; a record the
\* caller has just made and never bid with has the zero LastBidTime.
BidderRecords(ids) ==
    [ID : ids,
     StartingBid : Money,
     MaxBid : Money,
     CurrentBid : Money,
     AutoIncrement : Increments,
     LastBidTime : {0}]

\* ----------------------------------------------------------- construction

\* validateBidder without the check of AutoIncrement.
validateBidder_NoIncrementCheck(b) ==
    IF b.StartingBid <= 0 THEN "InvalidStartingBid"
    ELSE IF b.MaxBid < b.StartingBid THEN "InvalidMaxBid"
    ELSE NoError

\* validateBidder: the first failing check decides the error.
validateBidder(b) ==
    IF b.StartingBid <= 0 THEN "InvalidStartingBid"
    ELSE IF b.MaxBid < b.StartingBid THEN "InvalidMaxBid"
    ELSE IF b.AutoIncrement <= 0 THEN "InvalidIncrement"
    ELSE NoError

\* The loop of validateAuctionData from bidder k on, seenIDs being the IDs of
\* the bidders before k. An error comes with the ID its message names.
RECURSIVE validateFrom(_, _, _)
validateFrom(bs, k, seenIDs) ==
    IF k > Len(bs) THEN [err |-> NoError, id |-> NoID]
    ELSE IF bs[k].ID \in seenIDs THEN [err |-> "DuplicateBidder", id |-> bs[k].ID]
    ELSE IF validateBidder(bs[k]) # NoError
         THEN [err |-> validateBidder(bs[k]), id |-> bs[k].ID]
    ELSE validateFrom(bs, k + 1, seenIDs \cup {bs[k].ID})

validateAuctionData(bs) ==
    IF Len(bs) < MinBidders THEN [err |-> "InsufficientBidders", id |-> NoID]
    ELSE validateFrom(bs, 1, {})

\* NewAuction: the auction holds the caller's list when the data is valid,
\* and is nil (the empty list here) with the wrapped error when it is not.
NewAuction(bs) ==
    IF validateAuctionData(bs).err # NoError
    THEN [auction |-> <<>>, err |-> validateAuctionData(bs).err,
          id |-> validateAuctionData(bs).id]
    ELSE [auction |-> bs, err |-> NoError, id |-> NoID]

\* ---------------------------------------------------------- bid placement

\* The three validations of PlaceBid, in the order of the code.
BelowStartingBid(b, bidAmount) == bidAmount < b.StartingBid

\* AboveMaxBid with >= in place of >: a bid of exactly MaxBid is refused.
AboveMaxBid_AtCeiling(b, bidAmount) == bidAmount >= b.MaxBid

AboveMaxBid(b, bidAmount) == bidAmount > b.MaxBid

\* NotHigherThanCurrent with the third validation left out.
NotHigherThanCurrent_Off(b, bidAmount) == FALSE

\* NotHigherThanCurrent with < in place of <=: a bid equal to the current
\* bid is let through.
NotHigherThanCurrent_Strict(b, bidAmount) == bidAmount < b.CurrentBid

NotHigherThanCurrent(b, bidAmount) == bidAmount <= b.CurrentBid

\* PlaceBidValidate with the comparison against the current bid made first.
PlaceBidValidate_CurrentFirst(b, bidAmount) ==
    IF NotHigherThanCurrent(b, bidAmount) THEN "NotHigherThanCurrent"
    ELSE IF BelowStartingBid(b, bidAmount) THEN "BelowStartingBid"
    ELSE IF AboveMaxBid(b, bidAmount) THEN "AboveMaxBid"
    ELSE NoError

PlaceBidValidate(b, bidAmount) ==
    IF BelowStartingBid(b, bidAmount) THEN "BelowStartingBid"
    ELSE IF AboveMaxBid(b, bidAmount) THEN "AboveMaxBid"
    ELSE IF NotHigherThanCurrent(b, bidAmount) THEN "NotHigherThanCurrent"
    ELSE NoError

\* IsOtherBidder with the ID comparison left out: the sweep raises the
\* triggering bidder too.
IsOtherBidder_Always(otherBidder, id) == TRUE

\* otherBidder.ID != bidder.ID
IsOtherBidder(otherBidder, id) == otherBidder.ID # id

\* newBid := otherBidder.CurrentBid + otherBidder.AutoIncrement
NewBid(otherBidder) == otherBidder.CurrentBid + otherBidder.AutoIncrement

\* WithinMaxBid with the ceiling test left out.
WithinMaxBid_NoCeiling(otherBidder) == TRUE

\* WithinMaxBid comparing the bid before the increment with the ceiling.
WithinMaxBid_BeforeIncrement(otherBidder) == otherBidder.CurrentBid <= otherBidder.MaxBid

\* WithinMaxBid with < in place of <=: the ceiling itself is never reached.
WithinMaxBid_Exclusive(otherBidder) == NewBid(otherBidder) < otherBidder.MaxBid

\* newBid <= otherBidder.MaxBid
WithinMaxBid(otherBidder) == NewBid(otherBidder) <= otherBidder.MaxBid

\* Sweep with break in place of going on: the first other bidder that has
\* no room ends the sweep.
RECURSIVE Sweep_StopsAtCeiling(_, _, _, _, _)
Sweep_StopsAtCeiling(bs, k, id, clk, ticks) ==
    IF k > Len(bs) THEN [bidders |-> bs, clock |-> clk]
    ELSE IF ~IsOtherBidder(bs[k], id) THEN Sweep_StopsAtCeiling(bs, k + 1, id, clk, ticks)
    ELSE IF WithinMaxBid(bs[k])
         THEN Sweep_StopsAtCeiling([bs EXCEPT ![k].CurrentBid = NewBid(bs[k]),
                                              ![k].LastBidTime = clk + ticks[k]],
                                   k + 1, id, clk + ticks[k], ticks)
         ELSE [bidders |-> bs, clock |-> clk]

\* The sweep of PlaceBid from bidder k on. id is the triggering bidder's ID,
\* clk the last instant read, ticks[k] whether the clock has advanced when
\* bidder k's time.Now() is read.
RECURSIVE Sweep(_, _, _, _, _)
Sweep(bs, k, id, clk, ticks) ==
    IF k > Len(bs) THEN [bidders |-> bs, clock |-> clk]
    ELSE IF IsOtherBidder(bs[k], id) /\ WithinMaxBid(bs[k])
         THEN Sweep([bs EXCEPT ![k].CurrentBid = NewBid(bs[k]),
                               ![k].LastBidTime = clk + ticks[k]],
                    k + 1, id, clk + ticks[k], ticks)
         ELSE Sweep(bs, k + 1, id, clk, ticks)

\* The triggering bidder's update: CurrentBid and LastBidTime of bidder i.
TriggerUpdate(bs, i, bidAmount, now) ==
    [bs EXCEPT ![i].CurrentBid = bidAmount, ![i].LastBidTime = now]

\* PlaceBidResult with the third validation made after the triggering
\* bidder's update instead of before it.
PlaceBidResult_LateCheck(bs, i, bidAmount, clk, ticks) ==
    IF BelowStartingBid(bs[i], bidAmount) \/ AboveMaxBid(bs[i], bidAmount)
    THEN [bidders |-> bs, clock |-> clk, err |-> PlaceBidValidate(bs[i], bidAmount)]
    ELSE IF NotHigherThanCurrent(bs[i], bidAmount)
    THEN [bidders |-> TriggerUpdate(bs, i, bidAmount, clk), clock |-> clk,
          err |-> "NotHigherThanCurrent"]
    ELSE LET now == clk + ticks[0]
             swept == Sweep(TriggerUpdate(bs, i, bidAmount, now), 1, bs[i].ID, now, ticks)
         IN  [bidders |-> swept.bidders, clock |-> swept.clock, err |-> NoError]

\* The whole of PlaceBid for bidder i of the list: the validations, then
\* the triggering bidder's update, then the sweep. ticks[0] belongs to the
\* triggering bidder's time.Now().
PlaceBidResult(bs, i, bidAmount, clk, ticks) ==
    IF PlaceBidValidate(bs[i], bidAmount) # NoError
    THEN [bidders |-> bs, clock |-> clk, err |-> PlaceBidValidate(bs[i], bidAmount)]
    ELSE LET now == clk + ticks[0]
             swept == Sweep(TriggerUpdate(bs, i, bidAmount, now), 1, bs[i].ID, now, ticks)
         IN  [bidders |-> swept.bidders, clock |-> swept.clock, err |-> NoError]

\* ----------------------------------------------------- winner determination

\* isWinner with the bid comparison turned round: the lower bid wins.
isWinner_LowerBid(bs, currentWinner, bidder) ==
    \/ currentWinner = NoBidder
    \/ bs[bidder].CurrentBid < bs[currentWinner].CurrentBid
    \/ /\ bs[bidder].CurrentBid = bs[currentWinner].CurrentBid
       /\ bs[bidder].LastBidTime < bs[currentWinner].LastBidTime

\* isWinner with After in place of Before: among equal bids the later wins.
isWinner_LaterWins(bs, currentWinner, bidder) ==
    \/ currentWinner = NoBidder
    \/ bs[bidder].CurrentBid > bs[currentWinner].CurrentBid
    \/ /\ bs[bidder].CurrentBid = bs[currentWinner].CurrentBid
       /\ bs[bidder].LastBidTime > bs[currentWinner].LastBidTime

\* isWinner with !After in place of Before: among equal bids a bidder with
\* the same LastBidTime as the current winner replaces it.
isWinner_NotAfter(bs, currentWinner, bidder) ==
    \/ currentWinner = NoBidder
    \/ bs[bidder].CurrentBid > bs[currentWinner].CurrentBid
    \/ /\ bs[bidder].CurrentBid = bs[currentWinner].CurrentBid
       /\ bs[bidder].LastBidTime <= bs[currentWinner].LastBidTime

\* isWinner: currentWinner and bidder are positions in the list bs.
isWinner(bs, currentWinner, bidder) ==
    \/ currentWinner = NoBidder
    \/ bs[bidder].CurrentBid > bs[currentWinner].CurrentBid
    \/ /\ bs[bidder].CurrentBid = bs[currentWinner].CurrentBid
       /\ bs[bidder].LastBidTime < bs[currentWinner].LastBidTime

\* The loop of DetermineWinner from bidder k on.
RECURSIVE ScanFrom(_, _, _)
ScanFrom(bs, k, w) ==
    IF k > Len(bs) THEN w
    ELSE ScanFrom(bs, k + 1, IF isWinner(bs, w, k) THEN k ELSE w)

DetermineWinnerResult(bs) == ScanFrom(bs, 1, NoBidder)

\* ------------------------------------------------------------ the machine

\* The bidder records with uuid id that NewAuction accepts.
ValidBidders(id) == {b \in BidderRecords({id}) : validateBidder(b) = NoError}

\* The lists of n bidders a caller builds, the k-th with uuid k.
BidderLists(n) ==
    {bs \in [1..n -> UNION {ValidBidders(k) : k \in 1..n}] :
        \A k \in 1..n : bs[k].ID = k}

\* The goroutines of the concurrent runs: two callers of PlaceBid, caller c
\* bidding for bidder c of the list, and one caller of DetermineWinner.
Callers == {1, 2}

Reader == 3

\* No goroutine has called anything yet.
Idle ==
    /\ mutex = NoOne
    /\ pc = [p \in Callers \cup {Reader} |-> "idle"]
    /\ frame = [p \in Callers \cup {Reader} |->
                  [amount |-> 0, k |-> 0, newBid |-> 0, err |-> "none", winner |-> NoBidder]]
    /\ settled = {}
    /\ pending = {}

\* An auction NewAuction has accepted, before any call on it.
Init ==
    /\ \E n \in MinBidders..MaxBidders :
         \E bs \in BidderLists(n) :
            /\ NewAuction(bs).err = NoError
            /\ bidders = NewAuction(bs).auction
    /\ clock = 0
    /\ err = "none"
    /\ winner = NoBidder
    /\ start = <<>>
    /\ committed = <<>>
    /\ Idle

\* The reads of time.Now() an accepted PlaceBid for bidder i makes: 0 stands
\* for the triggering bidder's, k for the one of the bidder k it raises.
ClockReads(bs, i) ==
    {0} \cup {k \in 1..Len(bs) : IsOtherBidder(bs[k], bs[i].ID) /\ WithinMaxBid(bs[k])}

\* a.PlaceBid(a.Bidders[i], bidAmount). A rejected call reads no clock; at
\* each read of an accepted call the clock has advanced (1) or not (0).
PlaceBid(i, bidAmount) ==
    \E ticks \in IF PlaceBidValidate(bidders[i], bidAmount) = NoError
                 THEN [ClockReads(bidders, i) -> {0, 1}]
                 ELSE {<<>>} :
        LET r == PlaceBidResult(bidders, i, bidAmount, clock, ticks)
        IN  /\ err' = r.err
            /\ clock' = r.clock
            /\ bidders' = r.bidders
            /\ winner' = IF r.err = NoError THEN NoBidder ELSE winner
            /\ UNCHANGED conVars

\* DetermineWinner stamping the bidder it returns with the time of the call.
DetermineWinner_Stamps ==
    /\ winner' = DetermineWinnerResult(bidders)
    /\ clock' = clock + 1
    /\ bidders' = [bidders EXCEPT ![DetermineWinnerResult(bidders)].LastBidTime = clock + 1]
    /\ UNCHANGED err
    /\ UNCHANGED conVars

\* a.DetermineWinner()
DetermineWinner ==
    /\ winner' = DetermineWinnerResult(bidders)
    /\ UNCHANGED <<bidders, clock, err>>
    /\ UNCHANGED conVars

Next ==
    \/ \E i \in 1..Len(bidders), bidAmount \in Amounts : PlaceBid(i, bidAmount)
    \/ DetermineWinner

Spec == Init /\ [][Next]_vars

\* ------------------------------------------------- the concurrent machine
\* PlaceBid and DetermineWinner step by step, for goroutines that call them
\* at the same time. Every read and every write of a bidder field that
\* another goroutine may see is a step of its own.

\* MutexFree for a PlaceBid that takes no lock.
MutexFree_NoExclusion == TRUE

\* a.Lock() returns only when no goroutine holds the lock.
MutexFree == mutex = NoOne

\* The frame of goroutine p with one local changed.
Put(p, field, value) == [frame EXCEPT ![p][field] = value]

\* Caller c calls a.PlaceBid(a.Bidders[c], bidAmount).
Call(c, bidAmount) ==
    /\ pc[c] = "idle"
    /\ pc' = [pc EXCEPT ![c] = "lock"]
    /\ frame' = Put(c, "amount", bidAmount)
    /\ UNCHANGED <<seqVars, mutex, histVars>>

\* a.Lock()
Lock(c) ==
    /\ pc[c] = "lock"
    /\ MutexFree
    /\ mutex' = c
    /\ pc' = [pc EXCEPT ![c] = "validate"]
    /\ UNCHANGED <<seqVars, frame, histVars>>

\* The three validations; a failing one returns its error.
Validate(c) ==
    /\ pc[c] = "validate"
    /\ IF PlaceBidValidate(bidders[c], frame[c].amount) # NoError
       THEN /\ frame' = Put(c, "err", PlaceBidValidate(bidders[c], frame[c].amount))
            /\ pc' = [pc EXCEPT ![c] = "unlock"]
       ELSE /\ frame' = frame
            /\ pc' = [pc EXCEPT ![c] = "setBid"]
    /\ UNCHANGED <<seqVars, mutex, histVars>>

\* bidder.CurrentBid = bidAmount
SetBid(c) ==
    /\ pc[c] = "setBid"
    /\ bidders' = [bidders EXCEPT ![c].CurrentBid = frame[c].amount]
    /\ pc' = [pc EXCEPT ![c] = "setTime"]
    /\ UNCHANGED <<clock, err, winner, mutex, frame, histVars>>

\* bidder.LastBidTime = time.Now(), and the range loop starts.
SetTime(c) ==
    /\ pc[c] = "setTime"
    /\ \E tick \in {0, 1} :
          /\ clock' = clock + tick
          /\ bidders' = [bidders EXCEPT ![c].LastBidTime = clock + tick]
    /\ frame' = Put(c, "k", 1)
    /\ pc' = [pc EXCEPT ![c] = "sweep"]
    /\ UNCHANGED <<err, winner, mutex, histVars>>

\* One turn of the range loop up to its write: past the last bidder the
\* call returns nil; a bidder that is the triggering one or has no room is
\* skipped; for any other newBid is computed from the CurrentBid read now.
SweepRead(c) ==
    /\ pc[c] = "sweep"
    /\ IF frame[c].k > Len(bidders)
       THEN /\ frame' = Put(c, "err", NoError)
            /\ pc' = [pc EXCEPT ![c] = "unlock"]
       ELSE IF /\ IsOtherBidder(bidders[frame[c].k], bidders[c].ID)
               /\ WithinMaxBid(bidders[frame[c].k])
       THEN /\ frame' = Put(c, "newBid", NewBid(bidders[frame[c].k]))
            /\ pc' = [pc EXCEPT ![c] = "sweepBid"]
       ELSE /\ frame' = Put(c, "k", frame[c].k + 1)
            /\ pc' = pc
    /\ UNCHANGED <<seqVars, mutex, histVars>>

\* otherBidder.CurrentBid = newBid
SweepBid(c) ==
    /\ pc[c] = "sweepBid"
    /\ bidders' = [bidders EXCEPT ![frame[c].k].CurrentBid = frame[c].newBid]
    /\ pc' = [pc EXCEPT ![c] = "sweepTime"]
    /\ UNCHANGED <<clock, err, winner, mutex, frame, histVars>>

\* otherBidder.LastBidTime = time.Now(), and the loop goes on.
SweepTime(c) ==
    /\ pc[c] = "sweepTime"
    /\ \E tick \in {0, 1} :
          /\ clock' = clock + tick
          /\ bidders' = [bidders EXCEPT ![frame[c].k].LastBidTime = clock + tick]
    /\ frame' = Put(c, "k", frame[c].k + 1)
    /\ pc' = [pc EXCEPT ![c] = "sweep"]
    /\ UNCHANGED <<err, winner, mutex, histVars>>

\* The deferred a.Unlock(), and the return. The state it leaves is one
\* between whole PlaceBid calls; a DetermineWinner call has overlapped it
\* when it is running now or returned after this PlaceBid call began.
Unlock(c) ==
    /\ pc[c] = "unlock"
    /\ mutex' = IF mutex = c THEN NoOne ELSE mutex
    /\ pc' = [pc EXCEPT ![c] = "done"]
    /\ committed' = bidders
    /\ settled' = IF pc[Reader] = "scan" \/ c \in pending
                  THEN settled \cup {DetermineWinnerResult(bidders)}
                  ELSE settled
    /\ UNCHANGED <<seqVars, frame, start, pending>>

\* The reader calls a.DetermineWinner(): var winner *Bidder, and the range
\* loop starts. It takes no lock.
ScanStart ==
    /\ pc[Reader] = "idle"
    /\ pc' = [pc EXCEPT ![Reader] = "scan"]
    /\ frame' = [frame EXCEPT ![Reader].k = 1, ![Reader].winner = NoBidder]
    /\ settled' = {DetermineWinnerResult(committed)}
    /\ UNCHANGED <<seqVars, mutex, start, committed, pending>>

\* One turn of the range loop: isWinner on the fields as they are now.
ScanStep ==
    /\ pc[Reader] = "scan"
    /\ frame[Reader].k <= Len(bidders)
    /\ frame' = [frame EXCEPT
                    ![Reader].winner = IF isWinner(bidders, frame[Reader].winner, frame[Reader].k)
                                       THEN frame[Reader].k
                                       ELSE frame[Reader].winner,
                    ![Reader].k = frame[Reader].k + 1]
    /\ UNCHANGED <<seqVars, mutex, pc, histVars>>

\* return winner
ScanReturn ==
    /\ pc[Reader] = "scan"
    /\ frame[Reader].k > Len(bidders)
    /\ pc' = [pc EXCEPT ![Reader] = "done"]
    /\ pending' = {c \in Callers : pc[c] \notin {"idle", "done"}}
    /\ UNCHANGED <<seqVars, mutex, frame, start, committed, settled>>

\* An auction of the fewest bidders NewAuction accepts, one for each caller,
\* before any call on it.
InitConcurrent ==
    /\ \E bs \in BidderLists(MinBidders) :
          /\ NewAuction(bs).err = NoError
          /\ bidders = NewAuction(bs).auction
    /\ clock = 0
    /\ err = "none"
    /\ winner = NoBidder
    /\ start = bidders
    /\ committed = bidders
    /\ Idle

NextConcurrent ==
    \/ \E c \in Callers, bidAmount \in Amounts : Call(c, bidAmount)
    \/ \E c \in Callers : Lock(c)
    \/ \E c \in Callers : Validate(c)
    \/ \E c \in Callers : SetBid(c)
    \/ \E c \in Callers : SetTime(c)
    \/ \E c \in Callers : SweepRead(c)
    \/ \E c \in Callers : SweepBid(c)
    \/ \E c \in Callers : SweepTime(c)
    \/ \E c \in Callers : Unlock(c)
    \/ ScanStart
    \/ ScanStep
    \/ ScanReturn

SpecConcurrent == InitConcurrent /\ [][NextConcurrent]_vars

\* ------------------------------------------------ the construction machine
\* One goroutine builds a list of bidder records of its own making, valid or
\* not, and calls NewAuction with it.

Builder == 0

\* The bidder records a caller makes before any bidding: any parameters, any
\* of the uuids in use, no CurrentBid yet.
ConfigRecords == {b \in BidderRecords(1..MaxBidders) : b.CurrentBid = 0}

\* The lists of n bidders a caller hands to NewAuction.
ConfigLists(n) == [1..n -> ConfigRecords]

InitConstruct ==
    /\ \E n \in 0..MaxBidders : bidders \in ConfigLists(n)
    /\ start = bidders
    /\ clock = 0
    /\ err = "none"
    /\ winner = NoBidder
    /\ mutex = NoOne
    /\ pc = [p \in {Builder} |-> "idle"]
    /\ frame = [p \in {Builder} |-> [auction |-> <<>>, err |-> "none", id |-> NoID]]
    /\ committed = <<>>
    /\ settled = {}
    /\ pending = {}

\* auction, err := NewAuction(NewAuctionConfig{Bidders: bidders}). Neither
\* NewAuction nor the validations write a field of a bidder.
Construct ==
    /\ pc[Builder] = "idle"
    /\ pc' = [pc EXCEPT ![Builder] = "done"]
    /\ frame' = [frame EXCEPT ![Builder] = NewAuction(bidders)]
    /\ UNCHANGED <<seqVars, mutex, histVars>>

NextConstruct == Construct

SpecConstruct == InitConstruct /\ [][NextConstruct]_vars

\* ----------------------------------------------------- the bidding rounds
\* TestAuctionScenarios: the test builds an auction from bidders made by
\* createBidder, lets every bidder in turn bid its CurrentBid plus its
\* AutoIncrement while that is within its MaxBid, round after round until a
\* round places no bid, and then asks for the winner.

Tester == 0

\* createBidder, the record made at instant now.
createBidder(id, name, startingBid, maxBid, increment, now) ==
    [ID |-> id, Name |-> name, StartingBid |-> startingBid, MaxBid |-> maxBid,
     CurrentBid |-> startingBid, AutoIncrement |-> increment, LastBidTime |-> now]

\* The table of the test: the bidders of each auction, made one after the
\* other at the instants t[1] <= t[2] <= t[3], and the expected winner.
Scenarios(t) ==
    {[bidders |-> <<createBidder(1, "Sasha", 50, 80, 3, t[1]),
                    createBidder(2, "John", 60, 82, 2, t[2]),
                    createBidder(3, "Pat", 55, 85, 5, t[3])>>,
      expectedName |-> "Pat"],
     [bidders |-> <<createBidder(1, "Riley", 700, 725, 2, t[1]),
                    createBidder(2, "Morgan", 599, 725, 15, t[2]),
                    createBidder(3, "Charlie", 625, 725, 8, t[3])>>,
      expectedName |-> "Riley"],
     [bidders |-> <<createBidder(1, "Alex", 2500, 3000, 500, t[1]),
                    createBidder(2, "Jesse", 2800, 3100, 201, t[2]),
                    createBidder(3, "Drew", 2501, 3200, 247, t[3])>>,
      expectedName |-> "Jesse"]}

\* The test is about to enter its loop on the auction of the list bs.
RoundsFrom(bs, expectedName, now) ==
    /\ NewAuction(bs).err = NoError
    /\ bidders = NewAuction(bs).auction
    /\ start = bidders
    /\ clock = now
    /\ err = "none"
    /\ winner = NoBidder
    /\ mutex = NoOne
    /\ pc = [p \in {Tester} |-> "loop"]
    /\ frame = [p \in {Tester} |-> [active |-> TRUE, k |-> 0, expectedName |-> expectedName]]
    /\ committed = <<>>
    /\ settled = {}
    /\ pending = {}

\* One of the three auctions of the table.
InitScenarios ==
    \E d \in [2..3 -> {0, 1}] :
        \E tt \in Scenarios(<<0, d[2], d[2] + d[3]>>) :
            RoundsFrom(tt.bidders, tt.expectedName, d[2] + d[3])

\* An auction of the table, or any auction of bidders whose CurrentBid is
\* their StartingBid, as createBidder makes them.
InitRounds ==
    \/ InitScenarios
    \/ \E n \in MinBidders..MaxBidders :
          \E bs \in BidderLists(n) :
              /\ \A k \in 1..n : bs[k].CurrentBid = bs[k].StartingBid
              /\ RoundsFrom(bs, "none", 0)

\* for active { active = false; for _, bidder := range tt.bidders {
RoundStart ==
    /\ pc[Tester] = "loop"
    /\ frame[Tester].active
    /\ frame' = [frame EXCEPT ![Tester].active = FALSE, ![Tester].k = 1]
    /\ pc' = [pc EXCEPT ![Tester] = "turn"]
    /\ UNCHANGED <<seqVars, mutex, histVars>>

\* nextBid := bidder.CurrentBid + bidder.AutoIncrement
NextBid(bidder) == bidder.CurrentBid + bidder.AutoIncrement

\* The turn of a bidder whose nextBid is within its MaxBid: PlaceBid, and
\* active = true when it returns no error.
Bid ==
    /\ pc[Tester] = "turn"
    /\ frame[Tester].k <= Len(bidders)
    /\ LET k == frame[Tester].k
           nextBid == NextBid(bidders[k])
       IN  /\ nextBid <= bidders[k].MaxBid
           /\ \E ticks \in IF PlaceBidValidate(bidders[k], nextBid) = NoError
                            THEN [ClockReads(bidders, k) -> {0, 1}]
                            ELSE {<<>>} :
                 LET r == PlaceBidResult(bidders, k, nextBid, clock, ticks)
                 IN  /\ err' = r.err
                     /\ clock' = r.clock
                     /\ bidders' = r.bidders
                     /\ frame' = [frame EXCEPT
                                     ![Tester].active = (r.err = NoError) \/ frame[Tester].active,
                                     ![Tester].k = k + 1]
    /\ UNCHANGED <<winner, mutex, pc, histVars>>

\* The turn of a bidder whose nextBid is above its MaxBid: no bid.
Skip ==
    /\ pc[Tester] = "turn"
    /\ frame[Tester].k <= Len(bidders)
    /\ NextBid(bidders[frame[Tester].k]) > bidders[frame[Tester].k].MaxBid
    /\ frame' = [frame EXCEPT ![Tester].k = frame[Tester].k + 1]
    /\ UNCHANGED <<seqVars, mutex, pc, histVars>>

\* The end of the inner loop: back to the test of active.
RoundEnd ==
    /\ pc[Tester] = "turn"
    /\ frame[Tester].k > Len(bidders)
    /\ pc' = [pc EXCEPT ![Tester] = "loop"]
    /\ UNCHANGED <<seqVars, mutex, frame, histVars>>

\* A round has placed no bid: winner := auction.DetermineWinner()
Finish ==
    /\ pc[Tester] = "loop"
    /\ ~frame[Tester].active
    /\ winner' = DetermineWinnerResult(bidders)
    /\ pc' = [pc EXCEPT ![Tester] = "done"]
    /\ UNCHANGED <<bidders, clock, err, mutex, frame, histVars>>

NextRounds == RoundStart \/ Bid \/ Skip \/ RoundEnd \/ Finish

SpecScenarios == InitScenarios /\ [][NextRounds]_vars

\* The test runs on: a goroutine that can take a step takes it.
SpecRounds == InitRounds /\ [][NextRounds]_vars /\ WF_vars(NextRounds)

\* ------------------------------------------------- two orders of one list
\* One goroutine builds two auctions from bidders with the same IDs and
\* values, listed in two different orders, and makes every call on both:
\* the first auction is bidders, the second is a local of the goroutine.

Twin == 0

\* The fewest bidders with which a sweep raises more than one bidder.
TwinBidders == MinBidders + 1

\* The orders of a list of n bidders other than the given one.
Reorderings(n) ==
    {f \in [1..n -> 1..n] : (\A j, k \in 1..n : j # k => f[j] # f[k]) /\ (\E k \in 1..n : f[k] # k)}

\* The position in the list bs of the bidder with this ID.
PositionOf(bs, id) == CHOOSE k \in 1..Len(bs) : bs[k].ID = id

\* The list bs is in ascending order of StartingBid, then MaxBid, then
\* AutoIncrement.
Ascending(bs) ==
    \A k \in 1..(Len(bs) - 1) :
        \/ bs[k].StartingBid < bs[k + 1].StartingBid
        \/ /\ bs[k].StartingBid = bs[k + 1].StartingBid
           /\ \/ bs[k].MaxBid < bs[k + 1].MaxBid
              \/ /\ bs[k].MaxBid = bs[k + 1].MaxBid
                 /\ bs[k].AutoIncrement <= bs[k + 1].AutoIncrement

\* Two auctions NewAuction has accepted, of the same bidders with no
\* CurrentBid yet, before any call on them. The first lists the bidders in
\* ascending order and the second in any other order: an ID being a name
\* only, two orders of the same bidders are both reorderings of that one.
InitOrders ==
    /\ \E bs \in BidderLists(TwinBidders), f \in Reorderings(TwinBidders) :
          /\ \A k \in 1..Len(bs) : bs[k].CurrentBid = 0
          /\ Ascending(bs)
          /\ NewAuction(bs).err = NoError
          /\ NewAuction([k \in 1..Len(bs) |-> bs[f[k]]]).err = NoError
          /\ bidders = NewAuction(bs).auction
          /\ frame = [p \in {Twin} |->
                        [bidders |-> NewAuction([k \in 1..Len(bs) |-> bs[f[k]]]).auction,
                         clock |-> 0, err |-> "none", winner |-> NoID]]
    /\ start = bidders
    /\ clock = 0
    /\ err = "none"
    /\ winner = NoBidder
    /\ mutex = NoOne
    /\ pc = [p \in {Twin} |-> "idle"]
    /\ committed = <<>>
    /\ settled = {}
    /\ pending = {}

\* The clock reads of an accepted PlaceBid for bidder i of bs, by position,
\* when the m-th of them finds the clock advanced by nth[m] (the triggering
\* bidder's read being the 0-th).
ReadsInOrder(bs, i, nth) ==
    [k \in ClockReads(bs, i) |->
        nth[Cardinality({j \in ClockReads(bs, i) : 0 < j /\ j <= k})]]

\* PlaceBid for the bidder with this ID and this amount on the first
\* auction, then on the second. The two calls differ in the order of the
\* list only: the m-th clock read of the second finds the clock advanced
\* when the m-th of the first does. An accepted bid makes the winners stale.
PlaceBidOnBoth(id, bidAmount) ==
    LET i == PositionOf(bidders, id)
        other == frame[Twin].bidders
        j == PositionOf(other, id)
        reads == IF Cardinality(ClockReads(bidders, i)) > Cardinality(ClockReads(other, j))
                 THEN Cardinality(ClockReads(bidders, i)) - 1
                 ELSE Cardinality(ClockReads(other, j)) - 1
    IN  \E nth \in IF PlaceBidValidate(bidders[i], bidAmount) = NoError
                      \/ PlaceBidValidate(other[j], bidAmount) = NoError
                   THEN [0..reads -> {0, 1}]
                   ELSE {<<>>} :
            LET r == PlaceBidResult(bidders, i, bidAmount, clock,
                                    ReadsInOrder(bidders, i, nth))
                q == PlaceBidResult(other, j, bidAmount, frame[Twin].clock,
                                    ReadsInOrder(other, j, nth))
            IN  /\ bidders' = r.bidders
                /\ clock' = r.clock
                /\ err' = r.err
                /\ winner' = IF r.err = NoError THEN NoBidder ELSE winner
                /\ frame' = [frame EXCEPT
                                ![Twin].bidders = q.bidders,
                                ![Twin].clock = q.clock,
                                ![Twin].err = q.err,
                                ![Twin].winner = IF q.err = NoError THEN NoID
                                                 ELSE frame[Twin].winner]
                /\ UNCHANGED <<mutex, pc, histVars>>

\* DetermineWinner on the first auction, then on the second: the winner of
\* the second is kept by its ID.
DetermineWinnerOfBoth ==
    /\ winner' = DetermineWinnerResult(bidders)
    /\ frame' = [frame EXCEPT
                    ![Twin].winner =
                        frame[Twin].bidders[DetermineWinnerResult(frame[Twin].bidders)].ID]
    /\ UNCHANGED <<bidders, clock, err, mutex, pc, histVars>>

NextOrders ==
    \/ \E id \in 1..TwinBidders, bidAmount \in Amounts : PlaceBidOnBoth(id, bidAmount)
    \/ DetermineWinnerOfBoth

SpecOrders == InitOrders /\ [][NextOrders]_vars

\* ------------------------------------------------- a bidder from elsewhere
\* One goroutine calls PlaceBid on the auction with a Bidder of its own that
\* is not in the auction's list: the record is a local of the goroutine.

Outsider == 0

\* The uuid of the outsider's record: the ID of no bidder of a list.
OutsiderID == MaxBidders + 1

\* An auction NewAuction has accepted, of bidders with no CurrentBid yet, and
\* a bidder record valid for an auction that is not in its list.
InitOutsider ==
    /\ \E n \in MinBidders..MaxBidders :
         \E bs \in BidderLists(n) :
            /\ \A k \in 1..n : bs[k].CurrentBid = 0
            /\ NewAuction(bs).err = NoError
            /\ bidders = NewAuction(bs).auction
    /\ \E b \in ValidBidders(OutsiderID) :
          frame = [p \in {Outsider} |-> [bidder |-> b, amount |-> 0]]
    /\ start = bidders
    /\ clock = 0
    /\ err = "none"
    /\ winner = NoBidder
    /\ mutex = NoOne
    /\ pc = [p \in {Outsider} |-> "idle"]
    /\ committed = <<>>
    /\ settled = {}
    /\ pending = {}

\* PlaceBidOutsider with a test the code does not make: a bidder that is
\* not in the list is refused.
PlaceBidOutsider_MembersOnly(bidAmount) ==
    /\ err' = "NotInAuction"
    /\ frame' = [frame EXCEPT ![Outsider].amount = bidAmount]
    /\ UNCHANGED <<bidders, clock, winner, mutex, pc, histVars>>

\* a.PlaceBid(bidder, bidAmount) with the outsider's record: the validations
\* and the update are those of the record, and the sweep goes through the
\* list comparing each ID with the record's.
PlaceBidOutsider(bidAmount) ==
    LET bidder == frame[Outsider].bidder
    IN  \E ticks \in IF PlaceBidValidate(bidder, bidAmount) = NoError
                     THEN [{0} \cup {k \in 1..Len(bidders) :
                                        /\ IsOtherBidder(bidders[k], bidder.ID)
                                        /\ WithinMaxBid(bidders[k])} -> {0, 1}]
                     ELSE {<<>>} :
            IF PlaceBidValidate(bidder, bidAmount) # NoError
            THEN /\ err' = PlaceBidValidate(bidder, bidAmount)
                 /\ frame' = [frame EXCEPT ![Outsider].amount = bidAmount]
                 /\ UNCHANGED <<bidders, clock, winner, mutex, pc, histVars>>
            ELSE LET now == clock + ticks[0]
                     swept == Sweep(bidders, 1, bidder.ID, now, ticks)
                 IN  /\ err' = NoError
                     /\ clock' = swept.clock
                     /\ bidders' = swept.bidders
                     /\ frame' = [frame EXCEPT
                                     ![Outsider].bidder.CurrentBid = bidAmount,
                                     ![Outsider].bidder.LastBidTime = now,
                                     ![Outsider].amount = bidAmount]
                     /\ UNCHANGED <<winner, mutex, pc, histVars>>

NextOutsider == \E bidAmount \in Amounts : PlaceBidOutsider(bidAmount)

SpecOutsider == InitOutsider /\ [][NextOutsider]_vars

\* ----------------------------------------------------------------- claims

\* The bidders of the auction, as positions in its list.
Positions == 1..Len(bidders)

\* An accepted PlaceBid for bidder i with this amount is the step taken.
Accepted(i, bidAmount) == err' = NoError /\ PlaceBid(i, bidAmount)

\* A rejected PlaceBid for bidder i with this amount is the step taken.
Rejected(i, bidAmount) == err' # NoError /\ PlaceBid(i, bidAmount)

\* C1: a PlaceBid call that returns an error (below the starting bid, above
\* the max bid, or not higher than the current bid) leaves the CurrentBid and
\* the LastBidTime of every bidder, the triggering one included, as they were:
\* a step that changes one of them is no rejected PlaceBid.
C1_RejectedBidChangesNothing ==
    [][\/ \A k \in Positions :
              /\ bidders'[k].CurrentBid = bidders[k].CurrentBid
              /\ bidders'[k].LastBidTime = bidders[k].LastBidTime
       \/ \A i \in Positions, bidAmount \in Amounts : ~Rejected(i, bidAmount)]_vars

\* C1's case: the last PlaceBid was rejected as not higher than the current
\* bid of a bidder that had bid before.
C1_Witness ==
    /\ err = "NotHigherThanCurrent"
    /\ \E k \in Positions : bidders[k].LastBidTime > 0

\* C2: after an accepted PlaceBid(A, X), A's CurrentBid is X, and every other
\* bidder whose CurrentBid + AutoIncrement was within its MaxBid has grown by
\* exactly its AutoIncrement, the others being unchanged.
C2_AcceptedBidEffect ==
    [][\A i \in Positions, bidAmount \in Amounts :
          \/ /\ bidders'[i].CurrentBid = bidAmount
             /\ \A o \in Positions \ {i} :
                   bidders'[o].CurrentBid =
                       IF bidders[o].CurrentBid + bidders[o].AutoIncrement <= bidders[o].MaxBid
                       THEN bidders[o].CurrentBid + bidders[o].AutoIncrement
                       ELSE bidders[o].CurrentBid
          \/ ~Accepted(i, bidAmount)]_vars

\* C2's case: a PlaceBid has just been accepted, it raised another bidder to
\* its ceiling by an increment of 2, and the triggering bidder is below its own
\* ceiling by less than its increment.
C2_Witness ==
    /\ err = NoError
    /\ \E i, o \in Positions :
          /\ i # o
          /\ bidders[i].LastBidTime <= bidders[o].LastBidTime
          /\ bidders[o].LastBidTime = clock
          /\ clock > 0
          /\ bidders[o].AutoIncrement = 2
          /\ bidders[o].CurrentBid = bidders[o].MaxBid
          /\ bidders[i].CurrentBid < bidders[i].MaxBid

\* C3: in the state an accepted PlaceBid leaves, and so in every state after
\* at least one accepted PlaceBid, every bidder has
\* StartingBid <= CurrentBid <= MaxBid, whatever CurrentBid it was given.
C3_BidWithinBoundsAfterBid ==
    err = NoError =>
        \A k \in Positions :
            /\ bidders[k].StartingBid <= bidders[k].CurrentBid
            /\ bidders[k].CurrentBid <= bidders[k].MaxBid

\* C4: no call, PlaceBid (accepted or rejected, for any bidder) or
\* DetermineWinner, leaves a bidder with a smaller CurrentBid than before.
C4_CurrentBidNeverDecreases ==
    [][\A k \in Positions : bidders'[k].CurrentBid >= bidders[k].CurrentBid]_vars

\* C4's case: both kinds of write have happened, a bidder holding a bid it
\* placed above its starting bid and another one raised by a sweep, and a
\* call has been rejected since.
C4_Witness ==
    /\ err \notin {"none", NoError}
    /\ \E i, o \in Positions :
          /\ i # o
          /\ bidders[i].LastBidTime > 0
          /\ bidders[o].LastBidTime > bidders[i].LastBidTime
          /\ bidders[i].CurrentBid > bidders[i].StartingBid

\* C5: every amount PlaceBid accepts for a bidder lies between that bidder's
\* StartingBid and MaxBid, and every value the sweep writes to a bidder's
\* CurrentBid is at most that bidder's MaxBid.
C5_WrittenBidsWithinBounds ==
    [][\A i \in Positions, bidAmount \in Amounts :
          \/ /\ bidders[i].StartingBid <= bidAmount
             /\ bidAmount <= bidders[i].MaxBid
             /\ \A o \in Positions \ {i} :
                   bidders'[o].CurrentBid # bidders[o].CurrentBid =>
                       bidders'[o].CurrentBid <= bidders[o].MaxBid
          \/ ~Accepted(i, bidAmount)]_vars

\* C5's case: a PlaceBid has just been accepted at exactly the bidder's
\* MaxBid while another bidder, given a CurrentBid below its StartingBid,
\* was raised by the sweep.
C5_Witness ==
    /\ err = NoError
    /\ \E i, o \in Positions :
          /\ i # o
          /\ bidders[i].CurrentBid = bidders[i].MaxBid
          /\ bidders[i].LastBidTime < bidders[o].LastBidTime
          /\ bidders[o].CurrentBid < bidders[o].StartingBid

\* The highest CurrentBid of the auction.
HighestBid == CHOOSE h \in {bidders[k].CurrentBid : k \in Positions} :
                  \A k \in Positions : bidders[k].CurrentBid <= h

\* The bidders sharing the highest CurrentBid.
Leaders == {k \in Positions : bidders[k].CurrentBid = HighestBid}

\* C8: DetermineWinner returns a bidder of the auction whose CurrentBid is at
\* least that of every bidder, so the only highest bidder when there is one.
C8_WinnerHasHighestBid ==
    winner # NoBidder =>
        /\ winner \in Positions
        /\ \A k \in Positions : bidders[winner].CurrentBid >= bidders[k].CurrentBid
        /\ Cardinality(Leaders) = 1 => Leaders = {winner}

\* C8's case: DetermineWinner has returned the only highest bidder, which is
\* not the first of the list and not the one with the earliest LastBidTime.
C8_Witness ==
    /\ winner > 1
    /\ Leaders = {winner}
    /\ \E k \in Positions : bidders[k].LastBidTime < bidders[winner].LastBidTime

\* C9: when several bidders share the highest CurrentBid, DetermineWinner
\* returns one of them whose LastBidTime is not later than that of any other
\* of them, whatever their order in the list.
C9_EarliestLeaderWins ==
    winner # NoBidder =>
        /\ winner \in Leaders
        /\ \A k \in Leaders : bidders[winner].LastBidTime <= bidders[k].LastBidTime

\* C9's case: DetermineWinner has returned a bidder that shares the highest
\* bid with a bidder earlier in the list whose LastBidTime is later.
C9_Witness ==
    /\ winner # NoBidder
    /\ \E k \in Leaders :
          /\ k < winner
          /\ bidders[k].LastBidTime > bidders[winner].LastBidTime

\* C10: DetermineWinner changes no bidder field and not the list, and a
\* call made when an earlier call's result is not stale (no PlaceBid has been
\* accepted since) returns the same bidder as that earlier call.
C10_DetermineWinnerReadOnlyIdempotent ==
    [][DetermineWinner =>
          /\ bidders' = bidders
          /\ clock' = clock
          /\ winner # NoBidder => winner' = winner]_vars

\* C10's case: DetermineWinner has returned a bidder among several that share
\* the highest bid, and a PlaceBid has been rejected; no PlaceBid has been
\* accepted since, so the next DetermineWinner call is a repeated one.
C10_Witness ==
    /\ winner # NoBidder
    /\ Cardinality(Leaders) > 1
    /\ err \notin {"none", NoError}
    /\ \E k \in Positions : bidders[k].LastBidTime > 0

\* The CurrentBid of every bidder and what each caller's PlaceBid returned.
Outcome(bs, errs) ==
    [bids |-> [k \in 1..Len(bs) |-> bs[k].CurrentBid], errs |-> errs]

\* The outcome of the two callers' calls made one after the other from the
\* list start, caller first before caller second.
Serial(first, second) ==
    LET still == [k \in 0..Len(start) |-> 0]
        one == PlaceBidResult(start, first, frame[first].amount, 0, still)
        two == PlaceBidResult(one.bidders, second, frame[second].amount, 0, still)
    IN  Outcome(two.bidders, [c \in Callers |-> IF c = first THEN one.err ELSE two.err])

\* Both callers' PlaceBid calls have returned.
BothReturned == \A c \in Callers : pc[c] = "done"

\* Caller c is between the return of a.Lock() and its a.Unlock().
InCriticalSection(c) ==
    pc[c] \in {"validate", "setBid", "setTime", "sweep", "sweepBid", "sweepTime", "unlock"}

\* C6: PlaceBid calls made at the same time by several callers, each for a
\* different bidder, leave every bidder's CurrentBid and give every call the
\* result that making the same calls one after the other, in one order or the
\* other, leaves and gives; and no call runs its validations or its sweep
\* while another call is between its own validations and the end of its sweep.
C6_ConcurrentBidsSerializable ==
    /\ \A c, d \in Callers : InCriticalSection(c) /\ InCriticalSection(d) => c = d
    /\ BothReturned =>
          Outcome(bidders, [c \in Callers |-> frame[c].err]) \in {Serial(1, 2), Serial(2, 1)}

\* C6's case: both calls have returned, both were accepted, and the order
\* matters: the two serial orders end differently.
C6_Witness ==
    /\ BothReturned
    /\ \A c \in Callers : frame[c].err = NoError
    /\ Serial(1, 2) # Serial(2, 1)

\* C7: the bidder a DetermineWinner call returns, made while PlaceBid calls
\* run, is the winner of a state before or after a whole PlaceBid, one of
\* those that existed while the DetermineWinner call ran.
C7_WinnerOfSettledState ==
    (pc[Reader] = "done" /\ \A c \in pending : pc[c] = "done") =>
        frame[Reader].winner \in settled

\* C11: PlaceBid applies its checks in the order below-starting-bid,
\* above-max-bid, not-higher-than-current, and the first failing one decides
\* the error: an amount below the starting bid is rejected as such also when
\* it is not higher than the current bid, and an amount above the max bid is
\* rejected as such also when it is not higher than the current bid.
C11_FirstFailingCheckDecides ==
    [][\A i \in Positions, bidAmount \in Amounts :
          \/ /\ bidAmount < bidders[i].StartingBid => err' = "BelowStartingBid"
             /\ (bidAmount >= bidders[i].StartingBid /\ bidAmount > bidders[i].MaxBid)
                   => err' = "AboveMaxBid"
             /\ (/\ bidAmount >= bidders[i].StartingBid
                 /\ bidAmount <= bidders[i].MaxBid
                 /\ bidAmount <= bidders[i].CurrentBid)
                   => err' = "NotHigherThanCurrent"
          \/ ~PlaceBid(i, bidAmount)]_vars

\* C11's case: the last PlaceBid was rejected as above the max bid, and for
\* every bidder every amount above its max bid is also not higher than its
\* current bid, so the rejected amount failed both checks.
C11_Witness ==
    /\ err = "AboveMaxBid"
    /\ \A k \in Positions, bidAmount \in Amounts :
          bidAmount > bidders[k].MaxBid => bidAmount <= bidders[k].CurrentBid

\* The IDs of the list bs are pairwise distinct.
DistinctIDs(bs) == \A j, k \in 1..Len(bs) : j # k => bs[j].ID # bs[k].ID

\* The parameters of bidder record b are valid.
ValidParameters(b) ==
    b.StartingBid > 0 /\ b.MaxBid >= b.StartingBid /\ b.AutoIncrement > 0

\* C12: NewAuction succeeds exactly when the list has at least two bidders,
\* the IDs are pairwise distinct and every bidder has StartingBid > 0,
\* MaxBid >= StartingBid and AutoIncrement > 0; on success the auction holds
\* the given bidders in the given order, on failure no auction is returned,
\* and in both cases no field of a bidder has changed.
C12_NewAuctionAcceptsExactlyValidLists ==
    pc[Builder] = "done" =>
        /\ frame[Builder].err = NoError <=>
              /\ Len(start) >= 2
              /\ DistinctIDs(start)
              /\ \A k \in 1..Len(start) : ValidParameters(start[k])
        /\ frame[Builder].err = NoError => frame[Builder].auction = start
        /\ frame[Builder].err # NoError => frame[Builder].auction = <<>>
        /\ bidders = start

\* C12's case: NewAuction has accepted a list of as many bidders as the
\* bound allows, one of them with MaxBid equal to StartingBid.
C12_Witness ==
    /\ pc[Builder] = "done"
    /\ frame[Builder].err = NoError
    /\ Len(frame[Builder].auction) = MaxBidders
    /\ \E k \in 1..Len(start) : start[k].MaxBid = start[k].StartingBid

\* The IDs that two bidders of the list bs share.
SharedIDs(bs) == {bs[j].ID : j \in {j \in 1..Len(bs) : \E k \in 1..Len(bs) : k # j /\ bs[k].ID = bs[j].ID}}

\* C13: for a list of at least two bidders two of which share an ID,
\* NewAuction fails with the DuplicateBidder error naming a shared ID,
\* whatever the other fields of the bidders are.
C13_SharedIDGivesDuplicateBidder ==
    (pc[Builder] = "done" /\ Len(start) >= 2 /\ SharedIDs(start) # {}) =>
        /\ frame[Builder].err = "DuplicateBidder"
        /\ frame[Builder].id \in SharedIDs(start)

\* C14: with every CurrentBid at StartingBid, the rounds of bidding end with
\* DetermineWinner returning Pat for Sasha 50/80/+3, John 60/82/+2,
\* Pat 55/85/+5; Riley for Riley 700/725/+2, Morgan 599/725/+15,
\* Charlie 625/725/+8; and Jesse for Alex 2500/3000/+500,
\* Jesse 2800/3100/+201, Drew 2501/3200/+247.
C14_ScenarioWinners ==
    pc[Tester] = "done" =>
        /\ winner # NoBidder
        /\ bidders[winner].Name = frame[Tester].expectedName

\* C14's case: the rounds of the first auction have ended with Pat at 85,
\* Sasha at 80 and John at 82, and DetermineWinner has returned.
C14_Witness ==
    /\ pc[Tester] = "done"
    /\ frame[Tester].expectedName = "Pat"
    /\ winner = 3
    /\ bidders[1].CurrentBid = 80
    /\ bidders[2].CurrentBid = 82
    /\ bidders[3].CurrentBid = 85

\* Bidder b holds StartingBid + j * AutoIncrement for the largest j >= 0
\* that keeps it within MaxBid.
AtLastAffordableBid(b) ==
    \E j \in 0..(b.MaxBid - b.StartingBid) :
        /\ b.CurrentBid = b.StartingBid + j * b.AutoIncrement
        /\ b.CurrentBid <= b.MaxBid
        /\ b.CurrentBid + b.AutoIncrement > b.MaxBid

\* C18: for every valid auction whose bidders start at their StartingBid,
\* every PlaceBid the rounds of bidding issue is accepted, the rounds come
\* to an end, and at the end every bidder holds StartingBid plus the largest
\* whole number of AutoIncrements that fits under its MaxBid.
C18_RoundsTerminate ==
    /\ [](err \in {"none", NoError})
    /\ <>(pc[Tester] = "done")
    /\ [](pc[Tester] = "done" => \A k \in Positions : AtLastAffordableBid(bidders[k]))

\* C18's case: the rounds have ended with one bidder raised, by its own
\* bids and by the sweeps, to exactly its MaxBid and another raised to less
\* than its MaxBid, one more AutoIncrement being too much.
C18_Witness ==
    /\ pc[Tester] = "done"
    /\ err = NoError
    /\ \E i, o \in Positions :
          /\ bidders[i].CurrentBid = bidders[i].MaxBid
          /\ bidders[i].CurrentBid > bidders[i].StartingBid
          /\ bidders[o].CurrentBid > bidders[o].StartingBid
          /\ bidders[o].CurrentBid < bidders[o].MaxBid

\* Every bidder has the same CurrentBid in the two auctions.
SameBids ==
    \A k \in Positions :
        bidders[k].CurrentBid =
            frame[Twin].bidders[PositionOf(frame[Twin].bidders, bidders[k].ID)].CurrentBid

\* C15 as stated: for two auctions of the same bidders in different list
\* orders and the same PlaceBid calls, every bidder has the same CurrentBid
\* in both and DetermineWinner returns the same bidder in both.
C15_OrderAffectsNothing ==
    /\ SameBids
    /\ winner # NoBidder => bidders[winner].ID = frame[Twin].winner

\* C15 as amended: every bidder has the same CurrentBid in both, and
\* DetermineWinner returns the same bidder in both whenever one bidder alone
\* has the highest CurrentBid.
C15_OrderAffectsOnlyTies ==
    /\ SameBids
    /\ (winner # NoBidder /\ Cardinality(Leaders) = 1) =>
          bidders[winner].ID = frame[Twin].winner

\* C15's case: after an accepted PlaceBid whose sweep stamped two bidders in
\* one order in the first auction and in the other order in the second,
\* DetermineWinner has returned the only highest bidder of both.
C15_Witness ==
    /\ winner # NoBidder
    /\ Cardinality(Leaders) = 1
    /\ err = NoError
    /\ \E a, b \in Positions :
          LET other == frame[Twin].bidders
              c == PositionOf(other, bidders[a].ID)
              d == PositionOf(other, bidders[b].ID)
          IN  /\ bidders[a].LastBidTime < bidders[b].LastBidTime
              /\ other[c].LastBidTime > other[d].LastBidTime

\* C16: the ceiling is inclusive. In the sweep of an accepted PlaceBid, another
\* bidder whose CurrentBid + AutoIncrement is exactly its MaxBid is raised to
\* its MaxBid and stamped with a time read during the call, not before the
\* triggering bidder's; and a PlaceBid with an amount exactly the bidder's
\* MaxBid and above its CurrentBid is accepted.
C16_CeilingIsInclusive ==
    [][\A i \in Positions, bidAmount \in Amounts :
          \/ /\ (bidAmount = bidders[i].MaxBid /\ bidAmount > bidders[i].CurrentBid)
                    => err' = NoError
             /\ err' = NoError =>
                    \A o \in Positions \ {i} :
                        bidders[o].CurrentBid + bidders[o].AutoIncrement = bidders[o].MaxBid =>
                            /\ bidders'[o].CurrentBid = bidders[o].MaxBid
                            /\ bidders'[o].LastBidTime >= clock
                            /\ bidders'[o].LastBidTime >= bidders'[i].LastBidTime
                            /\ bidders'[o].LastBidTime <= clock'
          \/ ~PlaceBid(i, bidAmount)]_vars

\* C16's case: a PlaceBid has been accepted, a bidder that has bid is at its
\* MaxBid, and another bidder is at its MaxBid with a later LastBidTime, the
\* last instant read.
C16_Witness ==
    /\ err = NoError
    /\ \E i, o \in Positions :
          /\ bidders[i].CurrentBid = bidders[i].MaxBid
          /\ bidders[i].LastBidTime > 0
          /\ bidders[o].CurrentBid = bidders[o].MaxBid
          /\ bidders[o].LastBidTime > bidders[i].LastBidTime
          /\ bidders[o].LastBidTime = clock

\* C17: a bidder whose CurrentBid equals its MaxBid keeps its CurrentBid and
\* its LastBidTime through every step, and a PlaceBid for it is rejected
\* whatever the amount: as above the max bid when the amount is above MaxBid,
\* as below the starting bid or not higher than the current bid otherwise.
C17_MaxedOutBidderStays ==
    [][\A k \in Positions :
          bidders[k].CurrentBid = bidders[k].MaxBid =>
              /\ bidders'[k].CurrentBid = bidders[k].CurrentBid
              /\ bidders'[k].LastBidTime = bidders[k].LastBidTime
              /\ \A bidAmount \in Amounts :
                    \/ err' = IF bidAmount > bidders[k].MaxBid THEN "AboveMaxBid"
                              ELSE IF bidAmount < bidders[k].StartingBid
                                   THEN "BelowStartingBid"
                                   ELSE "NotHigherThanCurrent"
                    \/ ~PlaceBid(k, bidAmount)]_vars

\* C17's case: a bidder has reached its MaxBid from below, the clock has
\* been read since, no other bidder is at its MaxBid, and the last PlaceBid
\* was refused as not higher than the current bid.
C17_Witness ==
    /\ err = "NotHigherThanCurrent"
    /\ \E k \in Positions :
          /\ bidders[k].CurrentBid = bidders[k].MaxBid
          /\ bidders[k].CurrentBid > bidders[k].StartingBid
          /\ bidders[k].LastBidTime > 0
          /\ bidders[k].LastBidTime < clock
          /\ \A o \in Positions \ {k} : bidders[o].CurrentBid < bidders[o].MaxBid

\* C19: among the bidders that share the highest CurrentBid, DetermineWinner
\* returns one that comes before every other of them with the same
\* LastBidTime as its own: a full tie goes to the first of the list. What
\* it returns is what the scan computes from the list, the CurrentBid and
\* the LastBidTime values alone.
C19_FullTieGoesToFirstInList ==
    winner # NoBidder =>
        /\ winner \in Leaders
        /\ \A k \in Leaders :
              bidders[k].LastBidTime = bidders[winner].LastBidTime => winner <= k
        /\ winner = DetermineWinnerResult(
                        [k \in Positions |->
                            [CurrentBid |-> bidders[k].CurrentBid,
                             LastBidTime |-> bidders[k].LastBidTime]])

\* C19's case: DetermineWinner has returned a bidder that shares the highest
\* CurrentBid and a LastBidTime written by a PlaceBid with a bidder later in
\* the list.
C19_Witness ==
    /\ winner # NoBidder
    /\ \E k \in Leaders :
          /\ k > winner
          /\ bidders[k].LastBidTime = bidders[winner].LastBidTime
          /\ bidders[k].LastBidTime > 0

\* C20: PlaceBid with a bidder record whose ID is the ID of no bidder of the
\* list and an amount not below the record's StartingBid, not above its
\* MaxBid and above its CurrentBid returns nil, sets the record's CurrentBid
\* to the amount and its LastBidTime to a time read during the call, and
\* raises by its AutoIncrement every bidder of the list whose CurrentBid +
\* AutoIncrement is within its MaxBid, the first of the list included,
\* stamping it no earlier than the record; the other bidders keep their bid.
C20_OutsiderBidSweepsEveryone ==
    [][\A bidAmount \in Amounts :
          \/ ( /\ \A k \in Positions : bidders[k].ID # frame[Outsider].bidder.ID
               /\ bidAmount >= frame[Outsider].bidder.StartingBid
               /\ bidAmount <= frame[Outsider].bidder.MaxBid
               /\ bidAmount > frame[Outsider].bidder.CurrentBid )
               => /\ err' = NoError
                  /\ frame'[Outsider].bidder.CurrentBid = bidAmount
                  /\ frame'[Outsider].bidder.LastBidTime >= clock
                  /\ frame'[Outsider].bidder.LastBidTime <= clock'
                  /\ \A k \in Positions :
                        IF bidders[k].CurrentBid + bidders[k].AutoIncrement <= bidders[k].MaxBid
                        THEN /\ bidders'[k].CurrentBid =
                                    bidders[k].CurrentBid + bidders[k].AutoIncrement
                             /\ bidders'[k].LastBidTime >= frame'[Outsider].bidder.LastBidTime
                             /\ bidders'[k].LastBidTime <= clock'
                        ELSE bidders'[k] = bidders[k]
          \/ ~PlaceBidOutsider(bidAmount)]_vars

\* C20's case: a bid with the outsider's record has been accepted and
\* stamped, every bidder of the list has been raised from no bid, the first
\* of the list after the record was stamped, and one of them is at its
\* MaxBid.
C20_Witness ==
    /\ pc = [p \in {Outsider} |-> "idle"]
    /\ err = NoError
    /\ frame[Outsider].bidder.CurrentBid = frame[Outsider].amount
    /\ frame[Outsider].bidder.LastBidTime > 0
    /\ bidders[1].LastBidTime > frame[Outsider].bidder.LastBidTime
    /\ \A k \in Positions : bidders[k].CurrentBid > start[k].CurrentBid
    /\ \E k \in Positions : bidders[k].CurrentBid = bidders[k].MaxBid

====
